---- MODULE Spec2Model ----
(***************************************************************************)
(* Link / sender-domain risk engine of the phishing e-mail detector:       *)
(* link_analyzer.py (extract_urls, get_link_domain, analyze_url_domains,   *)
(* link_risk_score), project_prototype.py (domain_risk_score_with_reason)  *)
(* and app.py (load_link_lists).                                           *)
(*                                                                         *)
(* A Python str is a sequence of one-character strings; the missing values *)
(* None and NaN are one-element sequences that no text can equal.          *)
(***************************************************************************)
EXTENDS Integers, Sequences, FiniteSets, TLC

\* ------------------------------------------------------------------------
\* Characters
\* ------------------------------------------------------------------------

LowerSeq == <<"a","b","c","d","e","f","g","h","i","j","k","l","m","n","o","p","q","r","s","t","u","v","w","x","y","z">>

UpperSeq == <<"A","B","C","D","E","F","G","H","I","J","K","L","M","N","O","P","Q","R","S","T","U","V","W","X","Y","Z">>

DigitSeq == <<"0","1","2","3","4","5","6","7","8","9">>

\* The characters of the model in code-point order (str comparison).
CharOrder == <<" ","!",")",",","-",".","/">> \o DigitSeq \o <<":",";","@">> \o UpperSeq \o <<"_">> \o LowerSeq

Range(f) == {f[i] : i \in DOMAIN f}

Lower == Range(LowerSeq)

Upper == Range(UpperSeq)

Digit == Range(DigitSeq)

\* [A-Za-z]
Alpha == Lower \cup Upper

\* \w of re for the characters of the model: [A-Za-z0-9_]
WordChar == Alpha \cup Digit \cup {"_"}

\* [A-Za-z0-9-]
LabelChar == Alpha \cup Digit \cup {"-"}

\* \s
Space == {" "}

\* [\.,;:!\)]
TrailingPunct == {".", ",", ";", ":", "!", ")"}

NaN == <<"NaN">>

None == <<"None">>

\* pd.isna of a cell or argument that is a str or a missing value
isna(text) == text \in {NaN, None}

\* str(x) of a cell or argument that is a str or a missing value
Str(x) == IF x = NaN THEN <<"n","a","n">> ELSE IF x = None THEN <<"N","o","n","e">> ELSE x

Ord(c) == CHOOSE i \in DOMAIN CharOrder : CharOrder[i] = c

lower_char(c) == IF c \in Upper THEN LowerSeq[CHOOSE i \in DOMAIN UpperSeq : UpperSeq[i] = c] ELSE c

\* the list [f[1], ..., f[n]] of a function on 1..n, computed once
List(f) == f \o <<>>

\* the element of a one-element set: Only({e(v) : v \in {x}}) is e with the
\* local variable v assigned the value of x
Only(S) == CHOOSE r \in S : TRUE

\* str.lower()
lower(s) == Only({ List([i \in 1..Len(v) |-> lower_char(v[i])]) : v \in {s} })

Min(a, b) == IF a <= b THEN a ELSE b

SetMax(S) == CHOOSE x \in S : \A y \in S : y <= x

SetMin(S) == CHOOSE x \in S : \A y \in S : x <= y

Max(a, b) == IF a >= b THEN a ELSE b

\* s[i:i+len(p)] == p
HasPrefixAt(s, i, p) == i + Len(p) - 1 <= Len(s) /\ SubSeq(s, i, i + Len(p) - 1) = p

\* the same, re.IGNORECASE
HasPrefixAtCI(s, i, p) == i + Len(p) - 1 <= Len(s) /\ lower(SubSeq(s, i, i + Len(p) - 1)) = p

\* first index >= i whose character is not in cls, Len(s)+1 when there is none
RECURSIVE RunEnd(_, _, _)
RunEnd(s, i, cls) == IF i > Len(s) \/ s[i] \notin cls THEN i ELSE RunEnd(s, i + 1, cls)

\* first index >= i whose character is in cls, Len(s)+1 when there is none
RECURSIVE RunEndNot(_, _, _)
RunEndNot(s, i, cls) == IF i > Len(s) \/ s[i] \in cls THEN i ELSE RunEndNot(s, i + 1, cls)

s_http == <<"h","t","t","p",":","/","/">>

s_https == <<"h","t","t","p","s",":","/","/">>

s_www == <<"w","w","w",".">>

\* ------------------------------------------------------------------------
\* The regular expressions of link_analyzer.py.  A match is reported by the
\* index one past its last character, 0 when the pattern does not match at i.
\* ------------------------------------------------------------------------

\* (https?://[^\s)]+|www\.[^\s)]+) matched at i (case-sensitive)
URL_PATTERN(s, i) ==
    LET p == IF HasPrefixAt(s, i, s_https) THEN Len(s_https)
             ELSE IF HasPrefixAt(s, i, s_http) THEN Len(s_http)
             ELSE IF HasPrefixAt(s, i, s_www) THEN Len(s_www)
             ELSE 0
        e == RunEndNot(s, i + p, Space \cup {")"})
    IN  IF p > 0 /\ e > i + p THEN e ELSE 0

\* \b at i: exactly one of s[i-1], s[i] is a word character
WordBoundary(s, i) ==
    LET before == i > 1 /\ i - 1 <= Len(s) /\ s[i - 1] \in WordChar
        after == i >= 1 /\ i <= Len(s) /\ s[i] \in WordChar
    IN  before # after

\* (?:[A-Za-z0-9-]+\.)+[A-Za-z]{2,}\b from j, k labels already taken: the
\* repetition is greedy, so one more label is tried before the top-level
\* label; a label is a maximal run (a shorter one is not followed by '.'),
\* and so is the top-level label (a shorter one is followed by a letter,
\* which is no word boundary).
RECURSIVE BareTail(_, _, _)
BareTail(s, j, k) ==
    Only({ Only({ IF more > 0 THEN more
                  ELSE Only({ IF k >= 1 /\ te - j >= 2 /\ WordBoundary(s, te) THEN te ELSE 0 :
                              te \in {RunEnd(s, j, Alpha)} }) :
                  more \in {IF le > j /\ le <= Len(s) /\ s[le] = "." THEN BareTail(s, le + 1, k + 1) ELSE 0} }) :
           le \in {RunEnd(s, j, LabelChar)} })

\* (?<!@)\b(?:[A-Za-z0-9-]+\.)+[A-Za-z]{2,}\b matched at i
BARE_DOMAIN_PATTERN(s, i) ==
    IF (i > 1 /\ s[i - 1] = "@") \/ ~WordBoundary(s, i) THEN 0 ELSE BareTail(s, i, 0)

\* pattern.finditer(s) from i, ends[j] being the end of the match of the
\* pattern at j (0 for none): the leftmost match at or after i, then the
\* matches after its end
RECURSIVE finditer(_, _, _)
finditer(s, ends, i) ==
    Only({ IF starts = {} THEN <<>>
           ELSE Only({ <<SubSeq(s, j, ends[j] - 1)>> \o finditer(s, ends, ends[j]) :
                       j \in {SetMin(starts)} }) :
           starts \in {{j \in i..Len(s) : ends[j] > 0}} })

\* [m.group(0) for m in URL_PATTERN.finditer(s)]
URL_finditer(s) ==
    Only({ finditer(s, ends, 1) : ends \in {List([j \in 1..Len(s) |-> URL_PATTERN(s, j)])} })

\* [m.group(0) for m in BARE_DOMAIN_PATTERN.finditer(s)]
BARE_finditer(s) ==
    Only({ finditer(s, ends, 1) : ends \in {List([j \in 1..Len(s) |-> BARE_DOMAIN_PATTERN(s, j)])} })

\* TRAILING_PUNCT_RE.sub('', m): [\.,;:!\)]+$ removed
RECURSIVE TRAILING_PUNCT_RE_sub(_)
TRAILING_PUNCT_RE_sub(m) ==
    IF Len(m) > 0 /\ m[Len(m)] \in TrailingPunct
    THEN TRAILING_PUNCT_RE_sub(SubSeq(m, 1, Len(m) - 1))
    ELSE m

\* the loop of extract_urls over matches + bare_matches, from index i:
\* a cleaned match is appended unless the same cleaned string was seen
RECURSIVE DedupCleaned(_, _, _, _)
DedupCleaned(ms, i, seen, results) ==
    IF i > Len(ms) THEN results
    ELSE Only({ IF cleaned \notin seen
                THEN Only({ DedupCleaned(ms, i + 1, seen2, results2) :
                            seen2 \in {seen \cup {cleaned}}, results2 \in {Append(results, cleaned)} })
                ELSE DedupCleaned(ms, i + 1, seen, results) :
                cleaned \in {TRAILING_PUNCT_RE_sub(ms[i])} })

extract_urls(text) ==
    IF isna(text) THEN <<>>
    ELSE Only({ DedupCleaned(ms, 1, {}, <<>>) :
                ms \in {Only({ matches \o bare_matches :
                               matches \in {URL_finditer(Str(text))},
                               bare_matches \in {BARE_finditer(Str(text))} })} })

\* re.sub(r'^https?://', '', url, flags=re.IGNORECASE)
StripScheme(url) ==
    IF HasPrefixAtCI(url, 1, s_https) THEN SubSeq(url, Len(s_https) + 1, Len(url))
    ELSE IF HasPrefixAtCI(url, 1, s_http) THEN SubSeq(url, Len(s_http) + 1, Len(url))
    ELSE url

\* re.sub(r'^www\.', '', url, flags=re.IGNORECASE)
StripWww(url) ==
    IF HasPrefixAtCI(url, 1, s_www) THEN SubSeq(url, Len(s_www) + 1, Len(url)) ELSE url

\* url.split('/')[0]
BeforeSlash(url) == SubSeq(url, 1, RunEndNot(url, 1, {"/"}) - 1)

get_link_domain_unguarded(url) ==
    Only({ lower(domain) :
           domain \in {Only({ BeforeSlash(u3) :
               u3 \in {Only({ StripWww(u2) :
                   u2 \in {Only({ StripScheme(u1) :
                       u1 \in {TRAILING_PUNCT_RE_sub(Str(url))} })} })} })} })

get_link_domain(url) ==
    IF url = None \/ url = <<>> THEN <<>>
    ELSE Only({ lower(domain) :
                domain \in {Only({ BeforeSlash(u3) :
                    u3 \in {Only({ StripWww(u2) :
                        u2 \in {Only({ StripScheme(u1) :
                            u1 \in {TRAILING_PUNCT_RE_sub(Str(url))} })} })} })} })

\* ------------------------------------------------------------------------
\* difflib (SequenceMatcher.ratio, get_close_matches) and Counter.most_common,
\* as the standard library computes them for strings shorter than 200
\* characters (no junk, no autojunk).
\* ------------------------------------------------------------------------

\* length of the common run of a from i and b from j, inside a[..ahi), b[..bhi)
RECURSIVE CommonRun(_, _, _, _, _, _)
CommonRun(a, b, i, j, ahi, bhi) ==
    IF i < ahi /\ j < bhi /\ a[i] = b[j] THEN 1 + CommonRun(a, b, i + 1, j + 1, ahi, bhi) ELSE 0

\* SequenceMatcher.find_longest_match(alo, ahi, blo, bhi): <<i, j, k>>, the
\* longest block a[i:i+k] == b[j:j+k], of those the one starting earliest in
\* a, and of those the one starting earliest in b; <<alo, blo, 0>> if none.
find_longest_match(a, b, alo, ahi, blo, bhi) ==
    Only({ Only({ IF k = 0 THEN <<alo, blo, 0>>
                  ELSE Only({ Only({ <<alo + besti - 1, blo + bestj - 1, k>> :
                                     bestj \in {SetMin({j \in 1..(bhi - blo) : run[besti][j] = k})} }) :
                              besti \in {SetMin({i \in 1..(ahi - alo) : \E j \in 1..(bhi - blo) : run[i][j] = k})} }) :
                  k \in {SetMax({0} \cup {run[i][j] : i \in 1..(ahi - alo), j \in 1..(bhi - blo)})} }) :
           run \in {List([i \in 1..(ahi - alo) |->
                       List([j \in 1..(bhi - blo) |-> CommonRun(a, b, alo + i - 1, blo + j - 1, ahi, bhi)])])} })

\* sum of the sizes of SequenceMatcher.get_matching_blocks()
RECURSIVE MatchingSize(_, _, _, _, _, _)
MatchingSize(a, b, alo, ahi, blo, bhi) ==
    IF alo >= ahi \/ blo >= bhi THEN 0
    ELSE Only({ IF m[3] = 0 THEN 0
                ELSE m[3] + MatchingSize(a, b, alo, m[1], blo, m[2])
                          + MatchingSize(a, b, m[1] + m[3], ahi, m[2] + m[3], bhi) :
                m \in {find_longest_match(a, b, alo, ahi, blo, bhi)} })

\* SequenceMatcher(None, a, b).ratio() = 2.0*M/T as the fraction <<2M, T>>
\* (1.0 when both are empty)
ratio(a, b) ==
    IF Len(a) + Len(b) = 0 THEN <<1, 1>>
    ELSE <<2 * MatchingSize(a, b, 1, Len(a) + 1, 1, Len(b) + 1), Len(a) + Len(b)>>

\* r >= cutoff, the cutoff in hundredths
RatioAtLeast(r, cutoff) == r[1] * 100 >= cutoff * r[2]

RatioLess(r1, r2) == r1[1] * r2[2] < r2[1] * r1[2]

\* x < y for str
RECURSIVE StrLess(_, _)
StrLess(x, y) ==
    IF y = <<>> THEN FALSE
    ELSE IF x = <<>> THEN TRUE
    ELSE IF x[1] # y[1] THEN Ord(x[1]) < Ord(y[1])
    ELSE StrLess(Tail(x), Tail(y))

\* heapq.nlargest(n, result) over the indices left: best (score, x) first
RECURSIVE NLargest(_, _, _, _)
NLargest(n, left, score, possibilities) ==
    IF n = 0 \/ left = {} THEN <<>>
    ELSE LET Below(i, j) == RatioLess(score[i], score[j])
                            \/ (~RatioLess(score[j], score[i])
                                /\ StrLess(possibilities[i], possibilities[j]))
         IN  Only({ <<possibilities[best]>> \o Only({ NLargest(n - 1, rest, score, possibilities) :
                                                       rest \in {left \ {best}} }) :
                    best \in {CHOOSE i \in left : \A j \in left : ~Below(i, j) /\ (Below(j, i) \/ i <= j)} })

\* difflib.get_close_matches(word, possibilities, n, cutoff): SequenceMatcher
\* has seq2 = word and seq1 = x; real_quick_ratio and quick_ratio are upper
\* bounds of ratio, so x is kept exactly when ratio() >= cutoff.
get_close_matches(word, possibilities, n, cutoff) ==
    Only({ Only({ NLargest(n, kept, score, possibilities) :
                  kept \in {{i \in DOMAIN possibilities : RatioAtLeast(score[i], cutoff)}} }) :
           score \in {List([i \in DOMAIN possibilities |-> ratio(possibilities[i], word)])} })

\* keys of Counter(items) in insertion (first-seen) order
RECURSIVE Keys(_, _, _)
Keys(items, i, acc) ==
    IF i > Len(items) THEN acc
    ELSE IF \E k \in DOMAIN acc : acc[k] = items[i] THEN Keys(items, i + 1, acc)
    ELSE Only({ Keys(items, i + 1, acc2) : acc2 \in {Append(acc, items[i])} })

Count(items, x) == Cardinality({i \in DOMAIN items : items[i] = x})

\* [d for d, _ in Counter(items).most_common(n)]: descending count, equal
\* counts in first-seen order (sorted(..., reverse=True) is stable)
most_common(items, n) ==
    Only({ Only({ Only({ List([p \in 1..Min(n, Len(keys)) |-> keys[CHOOSE i \in DOMAIN keys : pos[i] = p]]) :
                         pos \in {List([i \in DOMAIN keys |->
                                    1 + Cardinality({j \in DOMAIN keys :
                                                       cnt[j] > cnt[i] \/ (cnt[j] = cnt[i] /\ j < i)})])} }) :
                  cnt \in {List([i \in DOMAIN keys |-> Count(items, keys[i])])} }) :
           keys \in {Keys(items, 1, <<>>)} })

\* ------------------------------------------------------------------------
\* link_analyzer.py: analyze_url_domains and link_risk_score
\* ------------------------------------------------------------------------

\* df.head(4000)
RowCap == 4000

\* most_common(20)
TopN == 20

\* cutoff=0.75 of the link checks, in hundredths
LINK_CUTOFF == 75

\* n of difflib.get_close_matches when the caller gives none
DEFAULT_N == 3

RequiredColumns == {"label", "urls", "body"}

read_csv_raises_unreadable(csv) == ~csv.readable

\* A CSV file is [readable, columns, pad, rows]: its data rows are pad rows
\* without links (label 0, urls 0) followed by rows.  pd.read_csv(csv_path,
\* usecols=[...]) raises when the file cannot be read or parsed, or lacks one
\* of the columns.
read_csv_raises(csv) == ~csv.readable \/ ~(RequiredColumns \subseteq csv.columns)

df_all(csv) == csv.rows

\* df.head(4000): the rows of csv.rows among the first RowCap rows of the file
df_head(csv) == SubSeq(csv.rows, 1, Max(0, Min(Len(csv.rows), RowCap - csv.pad)))

\* for u in urls: domain = get_link_domain(u); if domain: append(domain)
RECURSIVE LinkDomains(_, _)
LinkDomains(us, i) ==
    IF i > Len(us) THEN <<>>
    ELSE Only({ (IF domain # <<>> THEN <<domain>> ELSE <<>>) \o LinkDomains(us, i + 1) :
                domain \in {get_link_domain(us[i])} })

\* the occurrence list of the rows with the label and urls == 1, from row i
RECURSIVE SubsetDomains(_, _, _)
SubsetDomains(df, label, i) ==
    IF i > Len(df) THEN <<>>
    ELSE (IF df[i].label = label /\ df[i].urls = 1
          THEN Only({ LinkDomains(urls, 1) : urls \in {extract_urls(df[i].body)} })
          ELSE <<>>) \o SubsetDomains(df, label, i + 1)

FakeCandidatesFromTop(untrusted_domains, top_trusted) ==
    LET Similar(domain) == get_close_matches(domain, top_trusted, DEFAULT_N, LINK_CUTOFF) # <<>>
    IN  SelectSeq(most_common(untrusted_domains, TopN), Similar)

\* fake_links: every untrusted occurrence with a close match in top_trusted
FakeCandidates(untrusted_domains, top_trusted) ==
    LET Similar(domain) == get_close_matches(domain, top_trusted, DEFAULT_N, LINK_CUTOFF) # <<>>
    IN  SelectSeq(untrusted_domains, Similar)

\* the occurrence lists of analyze_url_domains: trusted_domains,
\* untrusted_domains and fake_links, with top_trusted
Occurrences(csv) ==
    Only({ Only({ Only({ [trusted_domains |-> trusted_domains, top_trusted |-> top_trusted,
                          untrusted_domains |-> untrusted_domains,
                          fake_links |-> FakeCandidates(untrusted_domains, top_trusted)] :
                         top_trusted \in {most_common(trusted_domains, TopN)} }) :
                  trusted_domains \in {SubsetDomains(df, 0, 1)},
                  untrusted_domains \in {SubsetDomains(df, 1, 1)} }) :
           df \in {df_head(csv)} })

analyze_url_domains(csv) ==
    IF read_csv_raises(csv) THEN [raised |-> TRUE]
    ELSE Only({ [raised |-> FALSE, trusted |-> occ.top_trusted,
                 untrusted |-> most_common(occ.untrusted_domains, TopN),
                 fake |-> most_common(occ.fake_links, TopN)] :
                occ \in {Occurrences(csv)} })

InList(x, list) == \E i \in DOMAIN list : list[i] = x

s_TrustedLink == <<"T","r","u","s","t","e","d"," ","l","i","n","k",":"," ">>

s_UntrustableLink == <<"U","n","t","r","u","s","t","a","b","l","e"," ","l","i","n","k",":"," ">>

s_FakeLink == <<"F","a","k","e","/","s","i","m","i","l","a","r"," ","l","i","n","k",":"," ">>

s_Typosquatting == <<"T","y","p","o","s","q","u","a","t","t","i","n","g",":"," ">>

s_IsSimilarTo == <<" ","i","s"," ","s","i","m","i","l","a","r"," ","t","o"," ">>

s_UnknownLink == <<"U","n","k","n","o","w","n"," ","l","i","n","k",":"," ">>

s_Sep == <<";"," ">>

\* sep.join(parts)
RECURSIVE Join(_, _)
Join(parts, sep) ==
    IF parts = <<>> THEN <<>>
    ELSE IF Len(parts) = 1 THEN parts[1]
    ELSE parts[1] \o sep \o Join(Tail(parts), sep)

RECURSIVE SumAdds(_)
SumAdds(steps) == IF steps = <<>> THEN 0 ELSE steps[1].add + SumAdds(Tail(steps))

FindingFakeFirst(domain, trusted_links, untrusted_links, fake_links) ==
    IF InList(domain, trusted_links) THEN [reason |-> s_TrustedLink \o domain, add |-> 0]
    ELSE IF InList(domain, fake_links) THEN [reason |-> s_FakeLink \o domain, add |-> 3]
    ELSE IF InList(domain, untrusted_links) THEN [reason |-> s_UntrustableLink \o domain, add |-> 5]
    ELSE Only({ IF match # <<>>
                THEN [reason |-> s_Typosquatting \o domain \o s_IsSimilarTo \o match[1], add |-> 3]
                ELSE [reason |-> s_UnknownLink \o domain, add |-> 1] :
                match \in {get_close_matches(domain, trusted_links, DEFAULT_N, LINK_CUTOFF)} })

\* one turn of the loop of link_risk_score for a non-empty domain: the
\* reason appended and the amount added to score
Finding(domain, trusted_links, untrusted_links, fake_links) ==
    IF InList(domain, trusted_links) THEN [reason |-> s_TrustedLink \o domain, add |-> 0]
    ELSE IF InList(domain, untrusted_links) THEN [reason |-> s_UntrustableLink \o domain, add |-> 5]
    ELSE IF InList(domain, fake_links) THEN [reason |-> s_FakeLink \o domain, add |-> 3]
    ELSE Only({ IF match # <<>>
                THEN [reason |-> s_Typosquatting \o domain \o s_IsSimilarTo \o match[1], add |-> 3]
                ELSE [reason |-> s_UnknownLink \o domain, add |-> 1] :
                match \in {get_close_matches(domain, trusted_links, DEFAULT_N, LINK_CUTOFF)} })

\* the loop of link_risk_score over urls from index i: one step per url
\* whose domain is not empty
RECURSIVE ScoreLoop(_, _, _, _, _)
ScoreLoop(us, i, trusted_links, untrusted_links, fake_links) ==
    IF i > Len(us) THEN <<>>
    ELSE Only({ (IF domain = <<>> THEN <<>>
                 ELSE <<Finding(domain, trusted_links, untrusted_links, fake_links)>>)
                \o ScoreLoop(us, i + 1, trusted_links, untrusted_links, fake_links) :
                domain \in {get_link_domain(us[i])} })

MAX_SCORE == 5

ClampWrap(score) == score % (MAX_SCORE + 1)

\* score = min(score, 5)
Clamp(score) == Min(score, MAX_SCORE)

link_risk_score_unclamped(body, trusted_links, untrusted_links, fake_links) ==
    Only({ Only({ [score |-> SumAdds(steps),
                   reason |-> Join(List([i \in DOMAIN steps |-> steps[i].reason]), s_Sep),
                   steps |-> steps] :
                  steps \in {ScoreLoop(urls, 1, trusted_links, untrusted_links, fake_links)} }) :
           urls \in {extract_urls(body)} })

\* (score, reason) of link_risk_score, with the steps of its loop
link_risk_score(body, trusted_links, untrusted_links, fake_links) ==
    Only({ Only({ Only({ [score |-> Clamp(score),
                          reason |-> Join(List([i \in DOMAIN steps |-> steps[i].reason]), s_Sep),
                          steps |-> steps] :
                         score \in {SumAdds(steps)} }) :
                  steps \in {ScoreLoop(urls, 1, trusted_links, untrusted_links, fake_links)} }) :
           urls \in {extract_urls(body)} })

\* ------------------------------------------------------------------------
\* project_prototype.py: the suspicious tokens and domain_risk_score_with_reason
\* ------------------------------------------------------------------------

get_domain_first(email) ==
    LET at == {i \in DOMAIN email : email[i] = "@"}
    IN  IF at = {} THEN email
        ELSE SubSeq(email, SetMin(at) + 1, SetMin((at \ {SetMin(at)}) \cup {Len(email) + 1}) - 1)

\* email.split('@')[-1]
get_domain(email) ==
    LET at == {i \in DOMAIN email : email[i] = "@"}
    IN  IF at = {} THEN email ELSE SubSeq(email, SetMax(at) + 1, Len(email))

\* re.split(r'[.-]', domain)
RECURSIVE get_tokens(_)
get_tokens(domain) ==
    LET e == RunEndNot(domain, 1, {".", "-"})
    IN  IF e > Len(domain) THEN <<domain>>
        ELSE <<SubSeq(domain, 1, e - 1)>> \o get_tokens(SubSeq(domain, e + 1, Len(domain)))

RECURSIVE Flatten(_)
Flatten(lists) == IF lists = <<>> THEN <<>> ELSE lists[1] \o Flatten(Tail(lists))

\* The spreadsheet is [readable, columns, senders].  The try block of
\* project_prototype.py: any exception (the file cannot be read, no Column1,
\* a cell that is no str) leaves top_tokens = [].
load_top_tokens(xlsx) ==
    IF ~xlsx.readable \/ "Column1" \notin xlsx.columns
       \/ (\E i \in DOMAIN xlsx.senders : xlsx.senders[i] \in {NaN, None})
    THEN <<>>
    ELSE Only({ most_common(all_tokens, TopN) :
                all_tokens \in {Flatten(List([i \in DOMAIN xlsx.senders |->
                                                get_tokens(get_domain(xlsx.senders[i]))]))} })

TRUSTED_DOMAINS == <<<<"g","m","a","i","l",".","c","o","m">>, <<"o","u","t","l","o","o","k",".","c","o","m">>, <<"y","a","h","o","o",".","c","o","m">>, <<"h","o","t","m","a","i","l",".","c","o","m">>,
                     <<"m","a","i","l",".","c","o","m">>, <<"e","d","u",".","c","o","m">>, <<"g","o","v",".","s","g">>, <<"e","d","u",".","s","g">>>>

\* threshold=0.7 of is_typosquatting, in hundredths
SENDER_CUTOFF == 70

is_typosquatting_link_cutoff(domain, trusted_domains, threshold) ==
    Only({ <<Len(matches) > 0, IF matches # <<>> THEN matches[1] ELSE None>> :
           matches \in {get_close_matches(domain, trusted_domains, 1, LINK_CUTOFF)} })

is_typosquatting(domain, trusted_domains, threshold) ==
    Only({ <<Len(matches) > 0, IF matches # <<>> THEN matches[1] ELSE None>> :
           matches \in {get_close_matches(domain, trusted_domains, 1, threshold)} })

s_TrustedDomain == <<"T","r","u","s","t","e","d"," ","d","o","m","a","i","n">>

s_NotTrustedDomain == <<"N","o","t"," ","a"," ","t","r","u","s","t","e","d"," ","d","o","m","a","i","n">>

s_TyposquattingSimilarTo == <<"T","y","p","o","s","q","u","a","t","t","i","n","g",":"," ","s","i","m","i","l","a","r"," ","t","o"," ">>

s_SuspiciousTokens == <<"S","u","s","p","i","c","i","o","u","s"," ","t","o","k","e","n","s",":"," ">>

s_Comma == <<","," ">>

\* [token for token in tokens if token in top_tokens]
SuspiciousTokens(tokens, tokens_top) ==
    LET IsSuspicious(token) == InList(token, tokens_top)
    IN  SelectSeq(tokens, IsSuspicious)

\* the else branch of domain_risk_score_with_reason, with is_typosquatting's
\* result typo = (is_suspicious, closest)
UntrustedDomainScore(domain, typo, suspicious_tokens) ==
    Only({ Only({ [score |-> Clamp(score),
                   reason |-> Join(<<s_NotTrustedDomain>>
                                   \o (IF hit THEN <<s_TyposquattingSimilarTo \o typo[2]>> ELSE <<>>)
                                   \o (IF suspicious_tokens # <<>>
                                       THEN <<s_SuspiciousTokens \o Join(suspicious_tokens, s_Comma)>>
                                       ELSE <<>>), s_Sep)] :
                  score \in {1 + (IF hit THEN 2 ELSE 0) + Len(suspicious_tokens)} }) :
           hit \in {typo[1] /\ domain # typo[2]} })

domain_risk_score_with_reason(email, tokens_top) ==
    Only({ IF InList(domain, TRUSTED_DOMAINS)
           THEN [score |-> 0, reason |-> Join(<<s_TrustedDomain>>, s_Sep)]
           ELSE Only({ UntrustedDomainScore(domain, typo, suspicious_tokens) :
                       typo \in {is_typosquatting(domain, TRUSTED_DOMAINS, SENDER_CUTOFF)},
                       suspicious_tokens \in {Only({ SuspiciousTokens(tokens, tokens_top) :
                                                      tokens \in {get_tokens(domain)} })} }) :
           domain \in {get_domain(email)} })

\* ------------------------------------------------------------------------
\* State
\* ------------------------------------------------------------------------

VARIABLES
    csv,              \* CEAS_08.csv, the labelled dataset on disk
    load_status,      \* "pending", then "success" or "warning" (load_link_lists)
    TRUSTED_LINKS,    \* the three lists load_link_lists returns (app.py)
    UNTRUSTED_LINKS,
    FAKE_LINKS,
    xlsx,             \* suspicious_senders_with_reasons.xlsx
    tokens_status,    \* "pending", then "loaded"
    top_tokens,       \* top_tokens of project_prototype.py
    link_call,        \* the last link_risk_score call: body, parts typed, result
    domain_call,      \* the last domain_risk_score_with_reason call
    extract_call,     \* the last extract_urls call
    domain_of_call,   \* the last get_link_domain call
    log               \* history: the scoring calls made in a session, in order

vars == <<csv, load_status, TRUSTED_LINKS, UNTRUSTED_LINKS, FAKE_LINKS, xlsx,
          tokens_status, top_tokens, link_call, domain_call, extract_call, domain_of_call, log>>

\* ------------------------------------------------------------------------
\* Inputs
\* ------------------------------------------------------------------------

\* number of fragments a body or text is typed from
MaxFragments == 2

\* number of data rows of a dataset after its leading rows without links
MaxRows == 2

AllColumns == {"sender", "receiver", "date", "subject", "body", "label", "urls"}

Row(label, has_urls, body) == [label |-> label, urls |-> has_urls, body |-> body]

Csv(rows, pad) == [readable |-> TRUE, columns |-> AllColumns, pad |-> pad, rows |-> rows]

CsvUnreadable == [readable |-> FALSE, columns |-> {}, pad |-> 0, rows |-> <<>>]

CsvNoUrlsColumn == [readable |-> TRUE, columns |-> AllColumns \ {"urls"}, pad |-> 0, rows |-> <<>>]

\* "a.io b.io ... u.io paypa1.com": 22 links
BigBody ==
    Join(List([i \in 1..(TopN + 1) |-> <<LowerSeq[i]>> \o <<".","i","o">>]), <<" ">>) \o <<" ","p","a","y","p","a","1",".","c","o","m">>

RowLegit == Row(0, 1, <<"h","t","t","p","s",":","/","/","p","a","y","p","a","l",".","c","o","m"," ","s","h","o","p",".","i","o">>)

RowPhish == Row(1, 1, <<"p","a","y","p","a","1",".","c","o","m",","," ","w","w","w",".","e","v","i","l",".","i","o"," ","s","h","o","p",".","i","o">>)

RowPhishUrl == Row(1, 1, <<"s","e","e"," ","h","t","t","p",":","/","/","e","v","i","l",".","i","o","/","a",".","h","t","m","l"," ","(","h","t","t","p",":","/","/",",",")">>)

RowNoUrls == Row(0, 0, <<"p","a","y","p","a","l",".","c","o","m">>)

RowNoBody == Row(1, 1, NaN)

RowLegitBig == Row(0, 1, BigBody)

RowPhishBig == Row(1, 1, BigBody)

RowPhishShop == Row(1, 1, <<"s","h","o","p",".","i","o">>)

RowPalette == {RowLegit, RowPhish, RowPhishUrl, RowPhishShop, RowNoUrls, RowNoBody}

RECURSIVE SeqsUpTo(_, _)
SeqsUpTo(S, n) ==
    IF n = 0 THEN {<<>>}
    ELSE SeqsUpTo(S, n - 1) \cup {Append(q, x) : q \in {r \in SeqsUpTo(S, n - 1) : Len(r) = n - 1}, x \in S}

\* datasets with more than TopN domains in a row
BigCsvs ==
    {Csv(rows, 0) : rows \in {<<RowLegitBig>>, <<RowPhishBig>>, <<RowLegitBig, RowPhishBig>>,
                              <<RowLegit, RowPhishBig>>, <<RowPhishBig, RowPhish>>,
                              <<RowLegitBig, RowLegit>>}}

\* the datasets of the miner: up to MaxRows rows after 0, RowCap - 1 or
\* RowCap rows without links, the datasets with a big row, and the two files
\* read_csv rejects
MinerCsvs ==
    {Csv(rows, pad) : rows \in SeqsUpTo(RowPalette, MaxRows), pad \in {0, RowCap - 1, RowCap}}
    \cup BigCsvs \cup {CsvUnreadable, CsvNoUrlsColumn}

CsvScoring == Csv(<<RowLegit, RowPhish, Row(1, 1, <<"b","a","d",".","i","o">>)>>, 0)

CsvEmpty == Csv(<<>>, 0)

\* the datasets of the scoring runs
ScoringCsvs == {CsvUnreadable, CsvScoring, CsvEmpty}

\* what a body is typed from
Fragments ==
    { <<"h","t","t","p","s",":","/","/","p","a","y","p","a","l",".","c","o","m">>,
      <<"p","a","y","p","a","1",".","c","o","m">>,
      <<"s","e","e"," ","w","w","w",".","e","v","i","l",".","i","o",","," ","b","a","d",".","i","o">>,
      <<"p","a","y","p","o","l",".","c","o","m">>,
      <<"(","h","t","t","p",":","/","/",",",")">>,
      <<"s","h","o","p",".","i","o">>,
      <<"f","l","a","p","p","r","i","c","e",".","c","o","m">>,
      <<"m","i","l","d","d","e","a","r",".","c","o","m"," ","f","e","t","e","s","s","t","e","e","r","s","i","t",".","c","o","m","!">>,
      <<"h","e","l","l","o">>,
      <<"u","@","s","u","b",".","s","h","o","p",".","i","o">>,
      <<"x","@","m","y","-","h","o","s","t",".","c","o","m">>,
      <<"x","@","p","a","y","p","a","l",".","c","o","m">> }

AppendFragment(body, f) == IF body = <<>> THEN f ELSE body \o <<" ">> \o f

\* the next input after one of `parts` fragments: a missing value, the empty
\* string, or one more fragment
NextTexts(t, parts) ==
    {[text |-> x, parts |-> 0] : x \in {NaN, None, <<>>}}
    \cup {[text |-> AppendFragment(t, f), parts |-> parts + 1] :
             f \in {g \in Fragments : parts < MaxFragments /\ t \notin {NaN, None}}}

\* the arguments of get_link_domain
UrlInputs ==
    { None, <<>>,
      <<"h","t","t","p","s",":","/","/","p","a","y","p","a","l",".","c","o","m">>, <<"p","a","y","p","a","l",".","c","o","m">>, <<"w","w","w",".","e","v","i","l",".","i","o">>, <<"H","T","T","P","S",":","/","/","W","W","W",".","P","a","y","P","a","l",".","c","o","m","/","L","o","g","i","n">>,
      <<"h","t","t","p",":","/","/","s","h","o","p",".","i","o","/","a","/","b",".","h","t","m","l">>, <<"s","h","o","p",".","i","o",".">>, <<"h","t","t","p",":","/","/",",">>, <<"h","t","t","p",":","/","/">>, <<"w","w","w",".">>,
      <<"h","t","t","p",":","/","/","s","h","o","p",".","i","o",".","/","c","a","r","t">>, <<"h","t","t","p","s",":","/","/","w","w","w",".","w","w","w",".","s","h","o","p",".","i","o">>, <<"h","t","t","p",":","/","/","s","h","o","p",".","i","o",":","/","c","a","r","t">>,
      <<"h","t","t","p",":","/","/","h","t","t","p",":","/","/","s","h","o","p",".","i","o">>, <<"s","h","o","p",".","i","o","/","a",",">>, <<"-","h","o","s","t",".","c","o","m">>, <<"b","a","d",".","i","o","!">> }

Xlsx(senders) == [readable |-> TRUE, columns |-> {"Column1"}, senders |-> senders]

XlsxUnreadable == [readable |-> FALSE, columns |-> {}, senders |-> <<>>]

XlsxSmall == Xlsx(<<<<"a","@","s","e","c","u","r","e","-","l","o","g","i","n",".","c","o","m">>, <<"b","@","s","e","c","u","r","e","-","p","a","y",".","c","o","m">>, <<"g","m","a","i","l","-","v","e","r","i","f","y",".","c","o","m">>, <<"c","@","d","@","p","a","y",".","n","e","t">>>>)

\* 21 different tokens: the last one seen is not among the top 20
XlsxBig == Xlsx(<<<<"x","@","a","-","b","-","c","-","d","-","e","-","f","-","g","-","h","-","i","-","j",".","c","o","m">>, <<"y","@","k","-","l","-","m","-","n","-","o","-","p","-","q","-","r","-","s",".","c","o","m">>, <<"z","@","s","e","c","u","r","e",".","t","t">>>>)

XlsxBadCell == Xlsx(<<<<"a","@","s","e","c","u","r","e","-","l","o","g","i","n",".","c","o","m">>, NaN>>)

Xlsxs == {XlsxUnreadable, XlsxSmall, XlsxBig, XlsxBadCell}

SenderLocals == {<<>>, <<"u","s","e","r","@">>, <<"a","@","b","@">>}

SenderDomains ==
    { <<"g","m","a","i","l",".","c","o","m">>, <<"g","o","v",".","s","g">>, <<"e","d","u",".","s","g">>, <<"G","M","A","I","L",".","c","o","m">>, <<"g","m","a","i","1",".","c","o","m">>, <<"g","m","a","i","l",".","s","g">>, <<"s","e","c","u","r","e","-","g","m","a","i","l",".","c","o","m">>,
      <<"o","u","t","l","o","o","k",".","n","e","t">>, <<"g","m","a","i","l",".","n","e","t">>, <<"e","d","u",".","o","r","g">>, <<"p","a","y","p","a","1",".","c","o","m">>, <<"s","e","c","u","r","e","-","l","o","g","i","n",".","c","o","m">>,
      <<"a","-","b",".","c","-","d",".","e">>, <<"x",".","o","r","g">>, <<"t","t">>, <<>> }

Emails == {l \o d : l \in SenderLocals, d \in SenderDomains}

\* ------------------------------------------------------------------------
\* Operations
\* ------------------------------------------------------------------------

NoLinkCall == [called |-> FALSE, body |-> <<>>, parts |-> 0, score |-> 0, reason |-> <<>>, steps |-> <<>>]

NoDomainCall == [called |-> FALSE, email |-> <<>>, score |-> 0, reason |-> <<>>]

NoExtractCall == [called |-> FALSE, text |-> <<>>, parts |-> 0, urls |-> <<>>]

NoDomainOfCall == [called |-> FALSE, url |-> <<>>, domain |-> <<>>]

DEFAULT_TRUSTED_LINKS == <<<<"g","o","o","g","l","e",".","c","o","m">>, <<"y","o","u","t","u","b","e",".","c","o","m">>, <<"m","i","c","r","o","s","o","f","t",".","c","o","m">>, <<"l","i","n","k","e","d","i","n",".","c","o","m">>, <<"p","a","y","p","a","l",".","c","o","m">>>>

DEFAULT_UNTRUSTED_LINKS == <<<<"f","l","a","p","p","r","i","c","e",".","c","o","m">>, <<"m","i","l","d","d","e","a","r",".","c","o","m">>, <<"f","e","t","e","s","s","t","e","e","r","s","i","t",".","c","o","m">>>>

DEFAULT_FAKE_LINKS == <<<<"g","o","g","g","l","e",".","c","o","m">>, <<"m","i","c","r","o","s","0","f","t",".","c","o","m">>, <<"s","e","c","u","r","e","-","p","a","y","p","a","l","-","l","o","g","i","n",".","c","o","m">>, <<"p","a","y","p","a","1",".","c","o","m">>>>

\* load_link_lists of app.py, run once when the module is loaded
LoadLinkLists ==
    /\ load_status = "pending"
    /\ \E r \in {analyze_url_domains(csv)} :
           IF ~r.raised
           THEN /\ TRUSTED_LINKS' = r.trusted
                /\ UNTRUSTED_LINKS' = r.untrusted
                /\ FAKE_LINKS' = r.fake
                /\ load_status' = "success"
           ELSE /\ TRUSTED_LINKS' = DEFAULT_TRUSTED_LINKS
                /\ UNTRUSTED_LINKS' = DEFAULT_UNTRUSTED_LINKS
                /\ FAKE_LINKS' = DEFAULT_FAKE_LINKS
                /\ load_status' = "warning"
    /\ UNCHANGED <<csv, xlsx, tokens_status, top_tokens, link_call, domain_call,
                   extract_call, domain_of_call>>

LinkRiskScoreRemembering(body, parts) ==
    /\ load_status # "pending"
    /\ \E r \in {link_risk_score(body, TRUSTED_LINKS, UNTRUSTED_LINKS, FAKE_LINKS)} :
           /\ link_call' = [called |-> TRUE, body |-> body, parts |-> parts,
                             score |-> r.score, reason |-> r.reason, steps |-> r.steps]
           /\ UNTRUSTED_LINKS' = UNTRUSTED_LINKS \o LinkDomains(extract_urls(body), 1)
    /\ UNCHANGED <<csv, load_status, TRUSTED_LINKS, FAKE_LINKS, xlsx,
                   tokens_status, top_tokens, domain_call, extract_call, domain_of_call>>

\* link_risk_score(body, TRUSTED_LINKS, UNTRUSTED_LINKS, FAKE_LINKS)
LinkRiskScore(body, parts) ==
    /\ load_status # "pending"
    /\ \E r \in {link_risk_score(body, TRUSTED_LINKS, UNTRUSTED_LINKS, FAKE_LINKS)} :
           link_call' = [called |-> TRUE, body |-> body, parts |-> parts,
                         score |-> r.score, reason |-> r.reason, steps |-> r.steps]
    /\ UNCHANGED <<csv, load_status, TRUSTED_LINKS, UNTRUSTED_LINKS, FAKE_LINKS, xlsx,
                   tokens_status, top_tokens, domain_call, extract_call, domain_of_call>>

\* the module-level try block of project_prototype.py that sets top_tokens
LoadTopTokens ==
    /\ tokens_status = "pending"
    /\ top_tokens' = load_top_tokens(xlsx)
    /\ tokens_status' = "loaded"
    /\ UNCHANGED <<csv, load_status, TRUSTED_LINKS, UNTRUSTED_LINKS, FAKE_LINKS, xlsx,
                   link_call, domain_call, extract_call, domain_of_call>>

\* domain_risk_score_with_reason(email), after the module-level code of
\* project_prototype.py has set top_tokens
DomainRiskScore(email) ==
    /\ tokens_status = "loaded"
    /\ \E r \in {domain_risk_score_with_reason(email, top_tokens)} :
           domain_call' = [called |-> TRUE, email |-> email, score |-> r.score, reason |-> r.reason]
    /\ UNCHANGED <<csv, load_status, TRUSTED_LINKS, UNTRUSTED_LINKS, FAKE_LINKS, xlsx,
                   tokens_status, top_tokens, link_call, extract_call, domain_of_call>>

\* extract_urls(text)
ExtractUrls(t, parts) ==
    /\ extract_call' = [called |-> TRUE, text |-> t, parts |-> parts, urls |-> extract_urls(t)]
    /\ domain_of_call' = NoDomainOfCall
    /\ UNCHANGED <<csv, load_status, TRUSTED_LINKS, UNTRUSTED_LINKS, FAKE_LINKS, xlsx,
                   tokens_status, top_tokens, link_call, domain_call>>

\* get_link_domain(url)
GetLinkDomain(url) ==
    /\ domain_of_call' = [called |-> TRUE, url |-> url, domain |-> get_link_domain(url)]
    /\ extract_call' = NoExtractCall
    /\ UNCHANGED <<csv, load_status, TRUSTED_LINKS, UNTRUSTED_LINKS, FAKE_LINKS, xlsx,
                   tokens_status, top_tokens, link_call, domain_call>>

\* ------------------------------------------------------------------------
\* Specifications
\* ------------------------------------------------------------------------

InitRest ==
    /\ load_status = "pending"
    /\ TRUSTED_LINKS = <<>>
    /\ UNTRUSTED_LINKS = <<>>
    /\ FAKE_LINKS = <<>>
    /\ tokens_status = "pending"
    /\ top_tokens = <<>>
    /\ link_call = NoLinkCall
    /\ domain_call = NoDomainCall
    /\ extract_call = NoExtractCall
    /\ domain_of_call = NoDomainOfCall
    /\ log = <<>>

\* the lists are loaded, then bodies are scored
Init == csv \in ScoringCsvs /\ xlsx = XlsxUnreadable /\ InitRest

Next ==
    \/ LoadLinkLists /\ UNCHANGED log
    \/ \E n \in NextTexts(link_call.body, link_call.parts) :
           LinkRiskScore(n.text, n.parts) /\ UNCHANGED log

Spec == Init /\ [][Next]_vars

\* the miner alone, over the datasets
InitMiner == csv \in MinerCsvs /\ xlsx = XlsxUnreadable /\ InitRest

NextMiner == LoadLinkLists /\ UNCHANGED log

SpecMiner == InitMiner /\ [][NextMiner]_vars

\* the sender scorer
InitSender == csv = CsvUnreadable /\ xlsx \in Xlsxs /\ InitRest

NextSender ==
    \/ LoadTopTokens /\ UNCHANGED log
    \/ \E email \in Emails : DomainRiskScore(email) /\ UNCHANGED log

SpecSender == InitSender /\ [][NextSender]_vars

\* the two text functions
InitText == csv = CsvUnreadable /\ xlsx = XlsxUnreadable /\ InitRest

NextText ==
    \/ \E n \in NextTexts(extract_call.text, extract_call.parts) :
           ExtractUrls(n.text, n.parts) /\ UNCHANGED log
    \/ \E url \in UrlInputs : GetLinkDomain(url) /\ UNCHANGED log

SpecText == InitText /\ [][NextText]_vars

\* a missing value or the empty string
MissingTexts == {NaN, None, <<>>}

\* the three link functions on missing, empty and one-fragment inputs, after
\* the lists are loaded
InitMissing == csv \in ScoringCsvs /\ xlsx = XlsxUnreadable /\ InitRest

NextMissing ==
    \/ LoadLinkLists /\ UNCHANGED log
    \/ \E body \in MissingTexts \cup Fragments :
           LinkRiskScore(body, IF body \in MissingTexts THEN 0 ELSE 1) /\ UNCHANGED log
    \/ \E t \in MissingTexts : ExtractUrls(t, 0) /\ UNCHANGED log
    \/ \E url \in UrlInputs \cup {NaN} : GetLinkDomain(url) /\ UNCHANGED log

SpecMissing == InitMissing /\ [][NextMissing]_vars

\* number of scoring calls of a session
MaxCalls == 3

\* the bodies and the addresses of the calls of a session
CallBodies == {None, <<"p","a","y","p","a","1",".","c","o","m">>, <<"s","e","e"," ","w","w","w",".","e","v","i","l",".","i","o",","," ","b","a","d",".","i","o">>}

CallEmails == {<<"u","s","e","r","@","g","m","a","i","l",".","c","o","m">>, <<"u","s","e","r","@","g","m","a","i","1",".","c","o","m">>, <<"a","@","s","e","c","u","r","e","-","l","o","g","i","n",".","c","o","m">>}

\* a session: the lists and the tokens are set up, then link_risk_score and
\* domain_risk_score_with_reason are called in any order, and log keeps the
\* calls with their results
InitCalls == csv \in {CsvUnreadable, CsvScoring} /\ xlsx \in {XlsxUnreadable, XlsxSmall} /\ InitRest

NextCalls ==
    \/ LoadLinkLists /\ UNCHANGED log
    \/ LoadTopTokens /\ UNCHANGED log
    \/ \E body \in CallBodies :
           /\ Len(log) < MaxCalls
           /\ LinkRiskScore(body, 0)
           /\ log' = Append(log, [fn |-> "link_risk_score", arg |-> body,
                                   score |-> link_call'.score, reason |-> link_call'.reason])
    \/ \E email \in CallEmails :
           /\ Len(log) < MaxCalls
           /\ DomainRiskScore(email)
           /\ log' = Append(log, [fn |-> "domain_risk_score_with_reason", arg |-> email,
                                   score |-> domain_call'.score, reason |-> domain_call'.reason])

SpecCalls == InitCalls /\ [][NextCalls]_vars

\* ------------------------------------------------------------------------
\* Properties of link_risk_score (specification Spec)
\* ------------------------------------------------------------------------

\* the links of the last scored body whose domain is not empty, as domains
ScoredDomains == LinkDomains(extract_urls(link_call.body), 1)

SimilarToTrusted(domain) ==
    \E i \in DOMAIN TRUSTED_LINKS : RatioAtLeast(ratio(TRUSTED_LINKS[i], domain), LINK_CUTOFF)

\* the category of a domain by the first rule that matches, and its points
CategoryOf(domain) ==
    CASE InList(domain, TRUSTED_LINKS) -> <<s_TrustedLink, 0>>
      [] ~InList(domain, TRUSTED_LINKS) /\ InList(domain, UNTRUSTED_LINKS) -> <<s_UntrustableLink, 5>>
      [] ~InList(domain, TRUSTED_LINKS) /\ ~InList(domain, UNTRUSTED_LINKS)
         /\ InList(domain, FAKE_LINKS) -> <<s_FakeLink, 3>>
      [] ~InList(domain, TRUSTED_LINKS) /\ ~InList(domain, UNTRUSTED_LINKS)
         /\ ~InList(domain, FAKE_LINKS) /\ SimilarToTrusted(domain) -> <<s_Typosquatting, 3>>
      [] OTHER -> <<s_UnknownLink, 1>>

\* C1: link_risk_score makes one finding per extracted link whose domain is
\* not empty, in the order of extraction, and none for a link whose domain is
\* empty; the finding is that of the first rule that matches in the order
\* Trusted (+0), Untrusted (+5), Fake (+3), similar to a trusted domain at
\* cutoff 0.75 (+3), unknown (+1), also for a domain present in several lists.
C1_FirstMatchingRule ==
    link_call.called =>
        /\ Len(link_call.steps) = Len(ScoredDomains)
        /\ \A i \in DOMAIN link_call.steps :
               /\ link_call.steps[i].add = CategoryOf(ScoredDomains[i])[2]
               /\ HasPrefixAt(link_call.steps[i].reason, 1, CategoryOf(ScoredDomains[i])[1] \o ScoredDomains[i])

\* a body scored with a link of empty domain and a domain that is in the
\* untrusted and the fake list and scores as untrusted
C1_Witness ==
    /\ link_call.called
    /\ \E i \in DOMAIN extract_urls(link_call.body) : get_link_domain(extract_urls(link_call.body)[i]) = <<>>
    /\ \E i \in DOMAIN link_call.steps :
           /\ InList(ScoredDomains[i], UNTRUSTED_LINKS)
           /\ InList(ScoredDomains[i], FAKE_LINKS)
           /\ link_call.steps[i].add = 5

\* the sum of the points of the findings
RECURSIVE RawSum(_, _)
RawSum(steps, i) == IF i > Len(steps) THEN 0 ELSE steps[i].add + RawSum(steps, i + 1)

\* C2: the score of link_risk_score is an integer in 0..5 equal to
\* min(5, sum of the points of the links); a body without links scores 0 with
\* the empty reason, and three different untrusted links score 5.
C2_ClampedSum ==
    link_call.called =>
        /\ link_call.score \in 0..5
        /\ link_call.score = (IF RawSum(link_call.steps, 1) > 5 THEN 5 ELSE RawSum(link_call.steps, 1))
        /\ (extract_urls(link_call.body) = <<>> => link_call.score = 0 /\ link_call.reason = <<>>)
        /\ (Cardinality({d \in Range(ScoredDomains) :
                            InList(d, UNTRUSTED_LINKS) /\ ~InList(d, TRUSTED_LINKS)}) >= 3
                => link_call.score = 5)

\* a body with three different untrusted links: raw sum 15, score 5
C2_Witness ==
    /\ link_call.called
    /\ Len(ScoredDomains) = 3
    /\ Cardinality({d \in Range(ScoredDomains) : InList(d, UNTRUSTED_LINKS) /\ ~InList(d, TRUSTED_LINKS)}) = 3
    /\ RawSum(link_call.steps, 1) = 15
    /\ link_call.score = 5

\* a fragment that is one link whose domain is in the untrusted list
IsUntrustedLink(f) == extract_urls(f) = <<f>> /\ InList(get_link_domain(f), UNTRUSTED_LINKS)

\* C5: with the lists fixed, scoring a body and then the body with one more
\* untrusted link appended never gives a lower score, and never more than 5.
C5_Monotonic ==
    [][(/\ link_call.called
        /\ link_call'.called
        /\ \E f \in Fragments : IsUntrustedLink(f) /\ link_call'.body = AppendFragment(link_call.body, f))
       => (link_call'.score >= link_call.score /\ link_call'.score <= 5)]_vars

\* a body scored after an untrusted link was appended to a body that scores
\* less
C5_Witness ==
    /\ link_call.called
    /\ link_call.parts = 2
    /\ \E f, g \in Fragments :
           /\ IsUntrustedLink(f)
           /\ link_call.body = AppendFragment(g, f)
           /\ link_risk_score(g, TRUSTED_LINKS, UNTRUSTED_LINKS, FAKE_LINKS).score \in 1..4
           /\ link_call.score = 5

\* ------------------------------------------------------------------------
\* Properties of extract_urls and get_link_domain (specification SpecText)
\* ------------------------------------------------------------------------

\* C3: extract_urls returns no two entries with the same normalized domain
\* (get_link_domain); a URL of the scheme/www pass is not added again by the
\* bare-domain pass.
C3_NoNormalizedDuplicates ==
    extract_call.called =>
        \A i, j \in DOMAIN extract_call.urls :
            i < j => get_link_domain(extract_call.urls[i]) # get_link_domain(extract_call.urls[j])

\* C4: get_link_domain(get_link_domain(u)) = get_link_domain(u) for a URL u
\* that is a non-empty string.
C4_Idempotent ==
    (domain_of_call.called /\ domain_of_call.url \notin {None, NaN, <<>>}) =>
        get_link_domain(domain_of_call.domain) = domain_of_call.domain

\* ------------------------------------------------------------------------
\* Properties of domain_risk_score_with_reason (specification SpecSender)
\* ------------------------------------------------------------------------

\* the substring after the last "@", the whole string when there is none
AfterLastAt(email) ==
    LET k == SetMax({0} \cup {i \in DOMAIN email : email[i] = "@"})
    IN  SubSeq(email, k + 1, Len(email))

Contains(text, part) == \E i \in 1..(Len(text) + 1) : HasPrefixAt(text, i, part)

\* C6: an address whose part after the last "@" is in TRUSTED_DOMAINS scores
\* exactly (0, "Trusted domain"), whatever the suspicious tokens are.
C6_TrustedDomain ==
    (domain_call.called /\ InList(AfterLastAt(domain_call.email), TRUSTED_DOMAINS)) =>
        domain_call.score = 0 /\ domain_call.reason = s_TrustedDomain

\* a trusted address with two "@" whose domain has suspicious tokens
C6_Witness ==
    /\ domain_call.called
    /\ domain_call.email = <<"a","@","b","@","g","m","a","i","l",".","c","o","m">>
    /\ InList(<<"g","m","a","i","l">>, top_tokens)
    /\ domain_call.score = 0

\* the trusted domains at least 0.70 similar to the domain that no other
\* trusted domain beats
BestMatches(domain) ==
    {t \in Range(TRUSTED_DOMAINS) :
        /\ RatioAtLeast(ratio(t, domain), SENDER_CUTOFF)
        /\ \A o \in Range(TRUSTED_DOMAINS) : ~RatioLess(ratio(t, domain), ratio(o, domain))}

\* the number of tokens of the domain that are suspicious tokens
SuspiciousCount(domain) ==
    Cardinality({i \in DOMAIN get_tokens(domain) : InList(get_tokens(domain)[i], top_tokens)})

\* C7: an address whose domain is not in TRUSTED_DOMAINS scores
\* min(5, 1 + (2 if TRUSTED_DOMAINS has a match at cutoff 0.70) + the number
\* of its tokens among the suspicious tokens), which is in 1..5; with a match
\* the score is at least 3 and the reason has "Typosquatting: similar to "
\* followed by a best match.
C7_UntrustedDomainScore ==
    (domain_call.called /\ ~InList(AfterLastAt(domain_call.email), TRUSTED_DOMAINS)) =>
        LET domain == AfterLastAt(domain_call.email)
            raw == 1 + (IF BestMatches(domain) # {} THEN 2 ELSE 0) + SuspiciousCount(domain)
        IN  /\ domain_call.score = (IF raw > 5 THEN 5 ELSE raw)
            /\ domain_call.score \in 1..5
            /\ (BestMatches(domain) # {} =>
                   /\ domain_call.score >= 3
                   /\ \E t \in BestMatches(domain) :
                          Contains(domain_call.reason, s_TyposquattingSimilarTo \o t))
            /\ (BestMatches(domain) = {} => ~Contains(domain_call.reason, s_TyposquattingSimilarTo))

\* a domain between 0.70 and 0.75 similar to a trusted one, with suspicious
\* tokens, whose points exceed 5
C7_Witness ==
    /\ domain_call.called
    /\ AfterLastAt(domain_call.email) = <<"s","e","c","u","r","e","-","g","m","a","i","l",".","c","o","m">>
    /\ BestMatches(<<"s","e","c","u","r","e","-","g","m","a","i","l",".","c","o","m">>) = {<<"g","m","a","i","l",".","c","o","m">>}
    /\ ~RatioAtLeast(ratio(<<"g","m","a","i","l",".","c","o","m">>, <<"s","e","c","u","r","e","-","g","m","a","i","l",".","c","o","m">>), LINK_CUTOFF)
    /\ SuspiciousCount(<<"s","e","c","u","r","e","-","g","m","a","i","l",".","c","o","m">>) >= 3
    /\ domain_call.score = 5

\* ------------------------------------------------------------------------
\* Properties of analyze_url_domains and load_link_lists (specification
\* SpecMiner)
\* ------------------------------------------------------------------------

CountIn(list, d) == Cardinality({i \in DOMAIN list : list[i] = d})

FirstIn(list, d) == SetMin({i \in DOMAIN list : list[i] = d} \cup {Len(list) + 1})

\* top has at most 20 entries, no duplicates and no empty domain, and is
\* ordered by non-increasing count in the occurrence list, equal counts by
\* first occurrence; no domain left out has a higher count than one included
RankedTop(top, occurrences) ==
    /\ Len(top) <= 20
    /\ \A i, j \in DOMAIN top : i < j => top[i] # top[j]
    /\ \A i \in DOMAIN top : top[i] # <<>>
    /\ \A i, j \in DOMAIN top :
           i < j => \/ CountIn(occurrences, top[i]) > CountIn(occurrences, top[j])
                    \/ /\ CountIn(occurrences, top[i]) = CountIn(occurrences, top[j])
                       /\ FirstIn(occurrences, top[i]) < FirstIn(occurrences, top[j])
    /\ \A d \in Range(occurrences) \ Range(top) :
           \A i \in DOMAIN top : CountIn(occurrences, d) <= CountIn(occurrences, top[i])

\* C8 as claimed: the trusted and the untrusted list are ranked by the
\* occurrence count among all rows of the dataset with the matching label and
\* urls == 1.
C8_RankedOverDataset ==
    load_status = "success" =>
        /\ RankedTop(TRUSTED_LINKS, SubsetDomains(csv.rows, 0, 1))
        /\ RankedTop(UNTRUSTED_LINKS, SubsetDomains(csv.rows, 1, 1))

\* the rows of the dataset that are among its first 4000 rows
First4000(c) == List([i \in {k \in DOMAIN c.rows : c.pad + k <= 4000} |-> c.rows[i]])

\* C8 (amended): the trusted and the untrusted list are ranked by the
\* occurrence count among the first 4000 rows of the dataset with the
\* matching label and urls == 1.
C8_RankedOverFirstRows ==
    load_status = "success" =>
        /\ RankedTop(TRUSTED_LINKS, SubsetDomains(First4000(csv), 0, 1))
        /\ RankedTop(UNTRUSTED_LINKS, SubsetDomains(First4000(csv), 1, 1))

\* more than 20 trusted domains: 20 are listed, the first one for its higher
\* count though seen later, and a domain is left out
C8_Witness ==
    /\ load_status = "success"
    /\ Len(TRUSTED_LINKS) = 20
    /\ Range(SubsetDomains(First4000(csv), 0, 1)) \ Range(TRUSTED_LINKS) # {}
    /\ CountIn(SubsetDomains(First4000(csv), 0, 1), TRUSTED_LINKS[1])
           > CountIn(SubsetDomains(First4000(csv), 0, 1), TRUSTED_LINKS[20])
    /\ FirstIn(SubsetDomains(First4000(csv), 0, 1), TRUSTED_LINKS[1])
           > FirstIn(SubsetDomains(First4000(csv), 0, 1), TRUSTED_LINKS[2])

\* the untrusted occurrences similar (ratio >= 0.75) to a listed trusted domain
SimilarOccurrences(occurrences) ==
    LET Similar(d) == \E i \in DOMAIN TRUSTED_LINKS :
                          RatioAtLeast(ratio(TRUSTED_LINKS[i], d), LINK_CUTOFF)
    IN  SelectSeq(occurrences, Similar)

\* C9: the fake list is the (at most 20) domains of highest count among the
\* untrusted occurrences, all of them and not only the top 20 untrusted, that
\* have a match at cutoff 0.75 in the trusted list; counts are of raw
\* occurrences.
C9_FakeFromAllOccurrences ==
    load_status = "success" =>
        LET candidates == SimilarOccurrences(SubsetDomains(First4000(csv), 1, 1))
        IN  /\ RankedTop(FAKE_LINKS, candidates)
            /\ Range(FAKE_LINKS) \subseteq Range(candidates)
            /\ Len(FAKE_LINKS) = Min(20, Cardinality(Range(candidates)))

\* a fake domain that is not among the 20 listed untrusted domains
C9_Witness ==
    /\ load_status = "success"
    /\ Len(UNTRUSTED_LINKS) = 20
    /\ \E i \in DOMAIN FAKE_LINKS : ~InList(FAKE_LINKS[i], UNTRUSTED_LINKS)

CannotLoad(c) == ~c.readable \/ "label" \notin c.columns \/ "urls" \notin c.columns \/ "body" \notin c.columns

\* C10: a dataset that cannot be read or lacks a column raises, and only then
\* load_link_lists falls back on the default lists; a readable dataset without
\* rows gives three empty lists and no error.
C10_FailureIsNotEmpty ==
    load_status # "pending" =>
        /\ load_status = "warning" <=> CannotLoad(csv)
        /\ load_status = "warning" =>
               /\ TRUSTED_LINKS = DEFAULT_TRUSTED_LINKS
               /\ UNTRUSTED_LINKS = DEFAULT_UNTRUSTED_LINKS
               /\ FAKE_LINKS = DEFAULT_FAKE_LINKS
        /\ (~CannotLoad(csv) /\ csv.pad = 0 /\ csv.rows = <<>>) =>
               /\ load_status = "success"
               /\ TRUSTED_LINKS = <<>> /\ UNTRUSTED_LINKS = <<>> /\ FAKE_LINKS = <<>>

\* the dataset without rows was loaded: three empty lists, no warning
C10_Witness ==
    /\ load_status = "success"
    /\ csv.readable /\ csv.pad = 0 /\ csv.rows = <<>>
    /\ TRUSTED_LINKS = <<>> /\ UNTRUSTED_LINKS = <<>> /\ FAKE_LINKS = <<>>

\* ------------------------------------------------------------------------
\* Properties of the link functions on missing input (specification
\* SpecMissing)
\* ------------------------------------------------------------------------

\* C11: extract_urls of a missing value (None, NaN) or of the empty string
\* returns the empty list, get_link_domain("") and get_link_domain(None)
\* return "", and link_risk_score of such a body returns (0, "").
C11_MissingInput ==
    /\ (extract_call.called /\ extract_call.text \in {NaN, None, <<>>}) => extract_call.urls = <<>>
    /\ (domain_of_call.called /\ domain_of_call.url \in {None, <<>>}) => domain_of_call.domain = <<>>
    /\ (link_call.called /\ link_call.body \in {NaN, None, <<>>}) =>
           link_call.score = 0 /\ link_call.reason = <<>> /\ link_call.steps = <<>>

\* a body of None was scored with lists that are not empty, and
\* get_link_domain(None) was called
C11_Witness ==
    /\ link_call.called /\ link_call.body = None /\ link_call.score = 0 /\ link_call.reason = <<>>
    /\ TRUSTED_LINKS # <<>>
    /\ domain_of_call.called /\ domain_of_call.url = None /\ domain_of_call.domain = <<>>

\* ------------------------------------------------------------------------
\* Properties of extract_urls on e-mail addresses (specification SpecText)
\* ------------------------------------------------------------------------

\* the characters of a hostname
HostChar == LabelChar \cup {"."}

\* text[j .. j+n-1] lies within the host of an address local@host of the text
InsideEmailHost(text, j, n) ==
    \E i \in DOMAIN text :
        /\ text[i] = "@"
        /\ i > 1 /\ text[i - 1] \in WordChar
        /\ i < j
        /\ \A k \in (i + 1)..(j + n - 1) : k <= Len(text) /\ text[k] \in HostChar

\* C12: extract_urls returns no part of the host of an e-mail address of the
\* text: every entry returned occurs in the text outside the hosts of its
\* addresses.
C12_NoEmailHostParts ==
    (extract_call.called /\ extract_call.text \notin {NaN, None}) =>
        \A k \in DOMAIN extract_call.urls :
            \E j \in 1..(Len(extract_call.text) + 1) :
                /\ HasPrefixAt(extract_call.text, j, extract_call.urls[k])
                /\ ~InsideEmailHost(extract_call.text, j, Len(extract_call.urls[k]))

\* ------------------------------------------------------------------------
\* Order of the findings of link_risk_score (specification Spec)
\* ------------------------------------------------------------------------

\* the extracted links whose domain is not empty, as extracted
ScoredLinks(body) ==
    LET HasDomain(u) == get_link_domain(u) # <<>>
    IN  SelectSeq(extract_urls(body), HasDomain)

\* where a link is first met in the text
FirstPos(text, link) == SetMin({j \in 1..(Len(text) + 1) : HasPrefixAt(text, j, link)})

\* C13: the reason of link_risk_score is the findings joined by "; ", one
\* finding per scored link, in the order in which the links are met in the
\* body: the link of a finding ends before the link of the next one begins.
C13_ReasonsInTextOrder ==
    (link_call.called /\ link_call.body \notin {NaN, None}) =>
        LET links == ScoredLinks(link_call.body)
        IN  /\ Len(link_call.steps) = Len(links)
            /\ link_call.reason = Join([i \in DOMAIN link_call.steps |-> link_call.steps[i].reason], s_Sep)
            /\ \A i, j \in DOMAIN links :
                   i < j => FirstPos(link_call.body, links[i]) + Len(links[i])
                                <= FirstPos(link_call.body, links[j])

\* ------------------------------------------------------------------------
\* Frame and repeatability of the scoring calls (specification SpecCalls)
\* ------------------------------------------------------------------------

\* C14: once the lists are loaded no call changes TRUSTED_LINKS,
\* UNTRUSTED_LINKS or FAKE_LINKS, once the tokens are loaded no call changes
\* top_tokens, and two calls of the same function with the same argument, at
\* any two points of the session, return the same score and reason.
C14_CallsLeaveSetsAndRepeat ==
    [][/\ load_status # "pending" => UNCHANGED <<TRUSTED_LINKS, UNTRUSTED_LINKS, FAKE_LINKS>>
       /\ tokens_status = "loaded" => UNCHANGED top_tokens
       /\ \A i, j \in DOMAIN log' :
              (log'[i].fn = log'[j].fn /\ log'[i].arg = log'[j].arg) =>
                  (log'[i].score = log'[j].score /\ log'[i].reason = log'[j].reason)]_vars

\* a body scored, then a sender, then the same body again with the same
\* non-zero result
C14_Witness ==
    /\ Len(log) = 3
    /\ log[1].fn = "link_risk_score" /\ log[1].score > 0
    /\ log[2].fn = "domain_risk_score_with_reason" /\ log[2].score > 0
    /\ log[3].fn = "link_risk_score" /\ log[3].arg = log[1].arg
    /\ log[3].score = log[1].score /\ log[3].reason = log[1].reason
    /\ load_status = "success" /\ top_tokens # <<>>

====
